---- MODULE Spec2Model ----
(***************************************************************************)
(* Model of imap.go: the incremental response parser (Response.Feed), the  *)
(* command / read-pump layer (IMAPClient.Do) and the thin operations built *)
(* on it.  A byte is a one-character string; a byte slice or a Go string   *)
(* is a sequence of bytes.  A nil slice and an empty slice are both <<>>.  *)
(***************************************************************************)
EXTENDS Integers, Sequences, FiniteSets, TLC

VARIABLES
    wire,        \* bytes the peer has produced and the reader has not taken yet
    conn,        \* the transport: "open", or "closed" once a Read or Write failed
    srv,         \* what the peer chose to answer: the reply bodies and the status text
    r,           \* the Response being fed (ret of Do, or the receiver of a direct Feed)
    chunk,       \* the bytes of the latest read of the command in flight, c.buf[:n]:
                 \* the slice handed to Feed
    isFinished,  \* first value returned by the most recent Feed call
    err,         \* error returned by the most recent Write / Read / Feed call
    fed,         \* every byte handed to Feed on r so far, in order
    pc,          \* position of the program: which loop it is in
    count,       \* IMAPClient.count
    sent,        \* every line handed to conn.Write, in order
    tag,         \* tag of the command in flight, as written
    op,          \* the operation in flight and its arguments
    held,        \* a completed Response an earlier command returned, kept by the caller
    out          \* what the last finished operation returned to its caller

vars == <<wire, conn, srv, r, chunk, isFinished, err, fed, pc, count, sent, tag, op, held, out>>

----------------------------------------------------------------------------
(* Bytes and strings *)

CR == "\r"
LF == "\n"
SP == " "
CRLF == <<CR, LF>>

Digits == <<"0", "1", "2", "3", "4", "5", "6", "7", "8", "9">>
Lower == <<"a", "b", "c", "d", "e", "f", "g", "h", "i", "j", "k", "l", "m",
           "n", "o", "p", "q", "r", "s", "t", "u", "v", "w", "x", "y", "z">>
Upper == <<"A", "B", "C", "D", "E", "F", "G", "H", "I", "J", "K", "L", "M",
           "N", "O", "P", "Q", "R", "S", "T", "U", "V", "W", "X", "Y", "Z">>

IsDigit(b) == \E k \in 1..10 : Digits[k] = b
DigitVal(b) == (CHOOSE k \in 1..10 : Digits[k] = b) - 1

\* strings.ToUpper on ASCII text
ToUpperByte(b) ==
    IF \E k \in 1..26 : Lower[k] = b
    THEN Upper[CHOOSE k \in 1..26 : Lower[k] = b]
    ELSE b
ToUpper(s) == [k \in 1..Len(s) |-> ToUpperByte(s[k])]

\* s[from:] and s[:to] of Go, on 0-based offsets
From(s, n) == SubSeq(s, n + 1, Len(s))
Upto(s, n) == SubSeq(s, 1, n)

\* strings.Index(s, <<b>>): 0-based offset of the first b, -1 when absent
IndexByte(s, b) ==
    IF \E k \in 1..Len(s) : s[k] = b
    THEN (CHOOSE k \in 1..Len(s) : s[k] = b /\ \A j \in 1..(k - 1) : s[j] # b) - 1
    ELSE -1

\* strings.SplitN(s, " ", 2)
SplitN2(s) ==
    LET i == IndexByte(s, SP)
    IN  IF i < 0 THEN <<s>> ELSE <<Upto(s, i), From(s, i + 1)>>

RECURSIVE Concat(_)
Concat(ss) == IF ss = <<>> THEN <<>> ELSE Head(ss) \o Concat(Tail(ss))

----------------------------------------------------------------------------
(* error values: nil is <<>>, errors.New(text) is <<text>> *)

Nil == <<>>
NewError(text) == <<text>>
ErrLength == NewError(<<"Parse response error, reply need a valid length number">>)
ErrNoMoreFeed == NewError(<<"Need no more feed">>)
ErrTransport == NewError(<<"transport error">>)

\* strconv.Atoi on the accumulated length digits (only digits are ever
\* accumulated): an empty text is an error; no length of the model has the
\* 19 digits an overflow needs.
AtoiFails(s) == s = <<>>
RECURSIVE AtoiValue(_)
AtoiValue(s) ==
    IF s = <<>> THEN 0
    ELSE 10 * AtoiValue(SubSeq(s, 1, Len(s) - 1)) + DigitVal(s[Len(s)])

----------------------------------------------------------------------------
(* reply and Response *)

ZeroReply == [origin |-> <<>>, type_ |-> <<>>, length |-> <<>>, content |-> <<>>]
newReply == [origin |-> <<>>, type_ |-> <<>>, length |-> <<>>, content |-> <<>>]

NewResponse ==
    [id |-> <<>>, status |-> <<>>, err |-> Nil, replys |-> <<>>,
     buf |-> <<>>, feedStatus |-> "feedInit", parenthesisCount |-> 0,
     reply |-> ZeroReply]

\* what one iteration of Feed's loop does: go on with the next byte ...
Continue(resp) == [r |-> resp, returned |-> FALSE, fin |-> FALSE, err |-> Nil]
\* ... or return from Feed
Return(resp, fin, e) == [r |-> resp, returned |-> TRUE, fin |-> fin, err |-> e]

OnInit(resp, i) ==
    IF i = "*"
    THEN Continue([resp EXCEPT !.feedStatus = "feedStar"])
    ELSE Continue([resp EXCEPT !.feedStatus = "feedStatusLine",
                               !.buf = Append(@, i)])

OnStar(resp, i) ==
    IF i # SP
    THEN Continue([resp EXCEPT !.feedStatus = "feedReply",
                               !.reply = [newReply EXCEPT !.origin = <<i>>]])
    ELSE Continue(resp)

OnReply(resp, i) ==
    CASE i = CR  -> Continue([resp EXCEPT !.feedStatus = "feedReplyMeet0d"])
      [] i = "(" -> Continue([resp EXCEPT !.feedStatus = "feedReplyType",
                                          !.reply.origin = Append(@, i)])
      [] OTHER   -> Continue([resp EXCEPT !.reply.origin = Append(@, i)])

OnReplyType(resp, i) ==
    LET s == CASE i = ")" -> [resp EXCEPT !.feedStatus = "feedReply"]
               [] i = SP  -> IF Len(resp.reply.type_) > 0
                             THEN [resp EXCEPT !.feedStatus = "feedReplyLength"]
                             ELSE resp
               [] OTHER   -> [resp EXCEPT !.reply.type_ = Append(@, i)]
    IN  Continue([s EXCEPT !.reply.origin = Append(@, i)])

OnReplyLength(resp, i) ==
    LET a == [resp EXCEPT !.reply.origin = Append(@, i)]
        b == IF i = LF THEN [a EXCEPT !.feedStatus = "feedReplyContent"] ELSE a
        c == IF IsDigit(i) THEN [b EXCEPT !.reply.length = Append(@, i)] ELSE b
    IN  Continue(c)

\* a content state that is left after the first byte, whatever the length
OnReplyContentOneByte(resp, i) ==
    LET a == [resp EXCEPT !.reply.origin = Append(@, i),
                          !.reply.content = Append(@, i)]
    IN  IF AtoiFails(a.reply.length)
        THEN Return(a, FALSE, ErrLength)
        ELSE Continue([a EXCEPT !.feedStatus = "feedReply"])

OnReplyContent(resp, i) ==
    LET a == [resp EXCEPT !.reply.origin = Append(@, i),
                          !.reply.content = Append(@, i)]
    IN  IF AtoiFails(a.reply.length)
        THEN Return(a, FALSE, ErrLength)
        ELSE IF Len(a.reply.content) = AtoiValue(a.reply.length)
             THEN Continue([a EXCEPT !.feedStatus = "feedReply"])
             ELSE Continue(a)

\* a reply terminator that puts the record at the front of the list
OnReplyMeet0dPrepends(resp, i) ==
    IF i = LF
    THEN Continue([resp EXCEPT !.feedStatus = "feedInit",
                               !.replys = <<resp.reply>> \o @,
                               !.buf = <<>>])
    ELSE Continue([resp EXCEPT !.feedStatus = "feedReply",
                               !.reply.origin = Append(@, i)])

OnReplyMeet0d(resp, i) ==
    IF i = LF
    THEN Continue([resp EXCEPT !.feedStatus = "feedInit",
                               !.replys = Append(@, resp.reply),
                               !.buf = <<>>])
    ELSE Continue([resp EXCEPT !.feedStatus = "feedReply",
                               !.reply.origin = Append(@, i)])

OnStatusLine(resp, i) ==
    IF i = CR
    THEN Continue([resp EXCEPT !.feedStatus = "feedStatusLineMeet0d"])
    ELSE Continue([resp EXCEPT !.buf = Append(@, i)])

\* the success test of the status line: false when an error is to be set
StatusIsOK(status) == ~(Len(status) < 3 \/ Upto(status, 3) # <<"O", "K", SP>>)

\* a false terminator of the status line that keeps the byte and not the CR
OnStatusLineMeet0dDropsCR(resp, i) ==
    IF i = LF
    THEN LET array == SplitN2(resp.buf)
             a == [resp EXCEPT !.feedStatus = "feedFinished", !.id = array[1]]
             b == IF Len(array) > 1 THEN [a EXCEPT !.status = array[2]] ELSE a
             c == IF StatusIsOK(b.status) THEN b
                  ELSE [b EXCEPT !.err = NewError(b.status)]
         IN  Return(c, TRUE, Nil)
    ELSE Continue([resp EXCEPT !.feedStatus = "feedStatusLine",
                               !.buf = Append(@, i)])

OnStatusLineMeet0d(resp, i) ==
    IF i = LF
    THEN LET array == SplitN2(resp.buf)
             a == [resp EXCEPT !.feedStatus = "feedFinished", !.id = array[1]]
             b == IF Len(array) > 1 THEN [a EXCEPT !.status = array[2]] ELSE a
             c == IF StatusIsOK(b.status) THEN b
                  ELSE [b EXCEPT !.err = NewError(b.status)]
         IN  Return(c, TRUE, Nil)
    ELSE Continue([resp EXCEPT !.feedStatus = "feedStatusLine",
                               !.buf = @ \o <<CR, i>>])

\* a Done state that also records the error in the Response
OnFinishedSetsErr(resp, i) ==
    Return([resp EXCEPT !.err = ErrNoMoreFeed], TRUE, ErrNoMoreFeed)

OnFinished(resp, i) == Return(resp, TRUE, ErrNoMoreFeed)

\* the switch of Feed on one byte
FeedByte(resp, i) ==
    CASE resp.feedStatus = "feedInit"             -> OnInit(resp, i)
      [] resp.feedStatus = "feedStar"             -> OnStar(resp, i)
      [] resp.feedStatus = "feedReply"            -> OnReply(resp, i)
      [] resp.feedStatus = "feedReplyType"        -> OnReplyType(resp, i)
      [] resp.feedStatus = "feedReplyLength"      -> OnReplyLength(resp, i)
      [] resp.feedStatus = "feedReplyContent"     -> OnReplyContent(resp, i)
      [] resp.feedStatus = "feedReplyMeet0d"      -> OnReplyMeet0d(resp, i)
      [] resp.feedStatus = "feedStatusLine"       -> OnStatusLine(resp, i)
      [] resp.feedStatus = "feedStatusLineMeet0d" -> OnStatusLineMeet0d(resp, i)
      [] resp.feedStatus = "feedFinished"         -> OnFinished(resp, i)

\* the loop of Feed from the k-th byte of input on
RECURSIVE FeedFrom(_, _, _)
FeedFrom(resp, input, k) ==
    IF k > Len(input)
    THEN [r |-> resp, fin |-> FALSE, err |-> Nil]
    ELSE LET s == FeedByte(resp, input[k])
         IN  IF s.returned
             THEN [r |-> s.r, fin |-> s.fin, err |-> s.err]
             ELSE FeedFrom(s.r, input, k + 1)

\* a Feed that keeps the status-line buffer per call instead of per Response
FeedLocalBuf(resp, input) == FeedFrom([resp EXCEPT !.buf = <<>>], input, 1)

Feed(resp, input) == FeedFrom(resp, input, 1)

\* the accessors Id, Status, Error, Replys
Id(resp) == resp.id
Status(resp) == resp.status
Error(resp) == resp.err
Replys(resp) == resp.replys

----------------------------------------------------------------------------
(* What a server can put on the wire *)

MaxChunk == 3      \* most bytes one read (one Feed call) delivers
MaxLit == 2        \* longest literal whose every content is tried
MaxReplies == 2    \* most untagged replies in front of a status line

Min(a, b) == IF a < b THEN a ELSE b

RECURSIVE Decimal(_)
Decimal(n) == IF n < 10 THEN <<Digits[n + 1]>>
              ELSE Decimal(n \div 10) \o <<Digits[(n % 10) + 1]>>

RECURSIVE SeqsOfLen(_, _)
SeqsOfLen(S, n) ==
    IF n = 0 THEN {<<>>}
    ELSE {Append(s, x) : s \in SeqsOfLen(S, n - 1), x \in S}
SeqsUpTo(S, n) == UNION {SeqsOfLen(S, k) : k \in 0..n}

FETCH == <<"F", "E", "T", "C", "H">>
SEARCH == <<"S", "E", "A", "R", "C", "H">>
TEXT == <<"R", "F", "C", "8", "2", "2", ".", "T", "E", "X", "T">>

Untagged(body) == <<"*", SP>> \o body \o CRLF

\* "<id> FETCH (<item> {<token>}CRLF<bytes>)"
FetchBody(id, item, token, bytes) ==
    id \o <<SP>> \o FETCH \o <<SP, "(">> \o item \o <<SP, "{">> \o token
       \o <<"}">> \o CRLF \o bytes \o <<")">>

LitBytes == {"h", CR, LF}
Literals == SeqsUpTo(LitBytes, MaxLit) \cup {<<"h", "e", "l", "l", "o">>}

EXISTS == <<"1", SP, "E", "X", "I", "S", "T", "S">>

\* replies every IMAP server sends
PlainBodies ==
    { EXISTS,
      SEARCH \o <<SP, "1", SP, "2", SP, "3">>,
      <<"O", "K", SP, "[", "x", "]", SP, "(", "y", ")">>,
      <<"N", "O", SP, "a", CR, "b">> }
\* one literal, its length declared exactly
LiteralBodies ==
    { FetchBody(<<"4">>, TEXT, Decimal(Len(c)), c) : c \in Literals }
\* a literal whose length token is no number
BadLengthBodies ==
    { FetchBody(<<"4">>, TEXT, t, <<"h">>) : t \in {<<>>, <<"x">>, <<"1", "x">>} }
\* a parenthesized list with a space in it
FlagsBody == <<"F", "L", "A", "G", "S", SP, "(", "\\", "S", SP, "\\", "D", ")">>
\* two literals in one reply, in one pair of parentheses
TwoLiteralsBody ==
    <<"4", SP>> \o FETCH \o <<SP, "(", "A", SP, "{", "1", "}", CR, LF, "x", SP,
        "B", SP, "{", "1", "}", CR, LF, "y", ")">>
ListBodies ==
    { <<"4", SP>> \o FETCH \o <<SP, "(", "F", "L", "A", "G", "S", SP, "(", "\\",
        "S", "e", "e", "n", ")", ")">>,
      FlagsBody,
      TwoLiteralsBody,
      <<"4", SP>> \o FETCH \o <<SP, "(", "A", SP, "{", "1", "}", CR, LF, "x", ")",
        SP, "(", "B", SP, "{", "1", "}", CR, LF, "y", ")">> }

Bodies == PlainBodies \cup LiteralBodies \cup BadLengthBodies \cup ListBodies

\* the text after the tag of a status line (none: the line is the tag alone)
StatusTexts ==
    { <<SP, "O", "K", SP, "d", "o", "n", "e">>,
      <<SP, "O", "K">>,
      <<SP, "N", "O", SP, "m", "a", "i", "l", "b", "o", "x", SP, "n", "o", "t",
        SP, "f", "o", "u", "n", "d">>,
      <<SP, "B", "A", "D", SP, "a", CR, "b">>,
      <<>> }

StatusLine(t, text) == t \o text \o CRLF

\* the untagged part of a response: any one reply, or up to MaxReplies
\* plain replies, or a literal before or behind a plain reply
ReplySeqs ==
    {<<>>} \cup {<<b>> : b \in Bodies}
           \cup UNION {SeqsOfLen(PlainBodies, k) : k \in 2..MaxReplies}
           \cup {<<EXISTS, b>> : b \in LiteralBodies}
           \cup {<<b, EXISTS>> : b \in LiteralBodies}

Wire(bs, t, text) ==
    Concat([k \in 1..Len(bs) |-> Untagged(bs[k])]) \o StatusLine(t, text)

\* every reply sequence before a plain success line, and every status line
\* after at most one plain reply
Served ==
    { [bs |-> bs, text |-> <<SP, "O", "K", SP, "d", "o", "n", "e">>] :
        bs \in ReplySeqs }
        \cup { [bs |-> bs, text |-> text] :
                  bs \in {<<>>} \cup {<<b>> : b \in PlainBodies},
                  text \in StatusTexts }

----------------------------------------------------------------------------
(* The parser driven directly: one response, cut into chunks at will *)

FeedTag == <<"a", "0", "0", "1">>
Trailers == {<<>>, <<"*">>}
DoneText == <<SP, "O", "K", SP, "d", "o", "n", "e">>

NoOp == [name |-> "none", a |-> <<>>, b |-> <<>>]
NoOut == [value |-> <<>>, err |-> Nil, panic |-> FALSE]

InitFeed ==
    /\ srv \in Served /\ conn = "open"
    /\ \E t \in Trailers : wire = Wire(srv.bs, FeedTag, srv.text) \o t
    /\ r = NewResponse
    /\ chunk = <<>> /\ isFinished = FALSE /\ err = Nil /\ fed = <<>>
    /\ pc = "feed"
    /\ count = 0 /\ sent = <<>> /\ tag = FeedTag
    /\ op = NoOp /\ held = NewResponse /\ out = NoOut

FeedCall(k) ==
    LET res == Feed(r, Upto(wire, k))
    IN  /\ chunk' = Upto(wire, k)
        /\ wire' = From(wire, k)
        /\ r' = res.r /\ isFinished' = res.fin /\ err' = res.err
        /\ fed' = fed \o Upto(wire, k)
        /\ UNCHANGED <<conn, srv, pc, count, sent, tag, op, held, out>>

\* the caller hands Feed the next few bytes; it stops at a length error,
\* as Do does
FeedChunk ==
    /\ pc = "feed" /\ wire # <<>> /\ err # ErrLength
    /\ \E k \in 1..Min(MaxChunk, Len(wire)) : FeedCall(k)

\* the caller hands Feed everything that is left in one call
FeedRest ==
    /\ pc = "feed" /\ Len(wire) > MaxChunk /\ err # ErrLength
    /\ FeedCall(Len(wire))

NextFeed == FeedChunk \/ FeedRest

SpecFeed == InitFeed /\ [][NextFeed]_vars

\* what a caller can see of a Response
Observable(resp) == <<Id(resp), Status(resp), Error(resp), Replys(resp)>>

----------------------------------------------------------------------------
(* The thin operations: pure inspection of a Response *)

ErrInvalid == NewError(<<"Invalid response">>)

\* strings.Trim(s, " \t\n\r")
CutSet == {SP, "\t", LF, CR}
RECURSIVE TrimLeft(_)
TrimLeft(s) == IF s # <<>> /\ Head(s) \in CutSet THEN TrimLeft(Tail(s)) ELSE s
RECURSIVE TrimRight(_)
TrimRight(s) ==
    IF s # <<>> /\ s[Len(s)] \in CutSet THEN TrimRight(Upto(s, Len(s) - 1)) ELSE s
\* a Trim that cuts nothing
NoTrim(s) == s

Trim(s) == TrimRight(TrimLeft(s))

\* strings.Split(s, " ")
RECURSIVE Split(_)
Split(s) ==
    LET i == IndexByte(s, SP)
    IN  IF i < 0 THEN <<s>> ELSE <<Upto(s, i)>> \o Split(From(s, i + 1))

\* the loop of Search over resp.Replys() from the k-th reply on
RECURSIVE SearchScan(_, _)
SearchScan(replys, k) ==
    IF k > Len(replys)
    THEN [value |-> <<>>, err |-> ErrInvalid, panic |-> FALSE]
    ELSE LET org == replys[k].origin
         IN  IF Len(org) >= 6 /\ ToUpper(Upto(org, 6)) = SEARCH
             THEN LET ids == Trim(From(org, 6))
                  IN  IF ids = <<>>
                      THEN [value |-> <<>>, err |-> Nil, panic |-> FALSE]
                      ELSE [value |-> Split(ids), err |-> Nil, panic |-> FALSE]
             ELSE SearchScan(replys, k + 1)

\* what Search returns for the Response Do gave it
SearchResult(resp) ==
    IF Error(resp) # Nil
    THEN [value |-> <<>>, err |-> Error(resp), panic |-> FALSE]
    ELSE SearchScan(Replys(resp), 1)

\* the part of the literal Fetch hands back: body[i+1:], i the first newline
AfterFirstNewline(body) == From(body, IndexByte(body, LF) + 1)

\* the loop of Fetch over resp.Replys() from the k-th reply on; slicing
\* org[len(id)+1:] beyond the end of org panics
RECURSIVE FetchScan(_, _, _)
FetchScan(replys, k, id) ==
    IF k > Len(replys)
    THEN [value |-> <<>>, err |-> ErrInvalid, panic |-> FALSE]
    ELSE LET org == replys[k].origin
         IN  IF Len(org) < Len(id) \/ Upto(org, Len(id)) # id
             THEN FetchScan(replys, k + 1, id)
             ELSE IF Len(id) + 1 > Len(org)
             THEN [value |-> <<>>, err |-> Nil, panic |-> TRUE]
             ELSE LET rest == From(org, Len(id) + 1)
                  IN  IF Len(rest) >= 5 /\ ToUpper(Upto(rest, 5)) = FETCH
                      THEN [value |-> AfterFirstNewline(replys[k].content),
                            err |-> Nil, panic |-> FALSE]
                      ELSE FetchScan(replys, k + 1, id)

\* what Fetch returns for the Response Do gave it
FetchResult(resp, id) ==
    IF Error(resp) # Nil
    THEN [value |-> <<>>, err |-> Error(resp), panic |-> FALSE]
    ELSE FetchScan(Replys(resp), 1, id)

----------------------------------------------------------------------------
(* The Session: NewClient, Do and the operations composed on Do *)

MaxCmds == 2       \* most commands issued on one Session by Do and Login
MaxOps == 1        \* most commands issued on one Session by Search and Fetch

\* fmt.Sprintf("a%03d", n)
\* the verb %d in place of %03d
NoPad(d) == d

Pad3(d) == IF Len(d) >= 3 THEN d ELSE [k \in 1..(3 - Len(d)) |-> "0"] \o d
Tag(n) == <<"a">> \o Pad3(Decimal(n))

\* fmt.Sprintf("a%03d %s\r\n", n, cmd)
CommandLine(n, cmd) == Tag(n) \o <<SP>> \o cmd \o CRLF

NOOP == <<"N", "O", "O", "P">>
ALL == <<"A", "L", "L">>

\* the calls a caller makes: Do(a), Login(a, b) ...
DoCalls ==
    { [name |-> "Do", a |-> NOOP, b |-> <<>>],
      [name |-> "Login", a |-> <<"u">>, b |-> <<"p">>] }
\* ... and Search(a), Fetch(a, b)
OpCalls ==
    { [name |-> "Search", a |-> ALL, b |-> <<>>],
      [name |-> "Fetch", a |-> <<"4">>, b |-> TEXT] }

\* the command text each call formats for Do
CmdText(call) ==
    CASE call.name = "Do"     -> call.a
      [] call.name = "Login"  -> <<"L", "O", "G", "I", "N", SP>> \o call.a \o <<SP>> \o call.b
      [] call.name = "Search" -> SEARCH \o <<SP>> \o call.a
      [] call.name = "Fetch"  -> FETCH \o <<SP>> \o call.a \o <<SP>> \o call.b

\* what each call returns to its caller once Do has returned resp
Result(call, resp) ==
    CASE call.name = "Search" -> SearchResult(resp)
      [] call.name = "Fetch"  -> FetchResult(resp, call.a)
      [] OTHER                -> [value |-> <<>>, err |-> resp.err, panic |-> FALSE]

NoText == <<SP, "N", "O", SP, "m", "a", "i", "l", "b", "o", "x", SP, "n", "o", "t",
            SP, "f", "o", "u", "n", "d">>

\* replies to a FETCH that are not the data line asked for
OtherFetchBodies ==
    { <<"4">>, <<"4", SP>>, EXISTS,
      <<"4", "2", SP>> \o FETCH \o <<SP, "(", "U", "I", "D", ")">> }

\* the answers of a server to each kind of call
Answers(call) ==
    CASE call.name = "Search" ->
            { [bs |-> bs, text |-> text] :
                bs \in { <<>>, <<SEARCH \o <<SP, "1", SP, "2", SP, "3">> >>,
                         <<SEARCH>>, <<SEARCH \o <<SP>> >>,
                         <<EXISTS, SEARCH \o <<SP, "1", SP, "2", SP, "3">> >>,
                         <<SEARCH \o <<SP, "4", "2">>,
                           SEARCH \o <<SP, "1", SP, "2", SP, "3">> >>,
                         <<EXISTS>> },
                text \in {DoneText, NoText} }
      [] call.name = "Fetch" ->
            { [bs |-> <<b>>, text |-> DoneText] :
                b \in LiteralBodies \cup OtherFetchBodies \cup ListBodies }
              \cup { [bs |-> bs, text |-> NoText] :
                       bs \in {<<>>, <<FetchBody(<<"4">>, TEXT, <<"1">>, <<"h">>)>>} }
              \cup { [bs |-> <<>>, text |-> DoneText] }
      [] OTHER ->
            { [bs |-> bs, text |-> text] :
                bs \in {<<>>}, text \in {DoneText, <<SP, "O", "K">>, NoText} }
              \cup { [bs |-> <<b>>, text |-> DoneText] :
                       b \in {EXISTS, FlagsBody, TwoLiteralsBody} }

Greeting == <<"*", SP, "O", "K", SP, "r", "e", "a", "d", "y">>
\* a greeting line, or a peer that closes before the end of the line
Greetings == {Greeting \o CRLF, Greeting}

Init ==
    /\ wire \in Greetings /\ conn = "open"
    /\ srv = [bs |-> <<>>, text |-> <<>>]
    /\ r = NewResponse
    /\ chunk = <<>> /\ isFinished = FALSE /\ err = Nil /\ fed = <<>>
    /\ pc = "NewClient"
    /\ count = 0 /\ sent = <<>> /\ tag = <<>>
    /\ op = NoOp /\ held = NewResponse /\ out = NoOut

\* one pass of the REPLY loop of NewClient: a read that fails ...
NewClientReadFails ==
    /\ pc = "NewClient"
    /\ err' = ErrTransport /\ pc' = "failed"
    /\ conn' = "closed" /\ wire' = <<>>
    /\ UNCHANGED <<srv, r, chunk, isFinished, fed, count, sent, tag, op, held, out>>

\* a scan of the bytes read that looks for the carriage return
HasReturn(bytes) == \E k \in 1..Len(bytes) : bytes[k] = CR

\* the scan of the bytes read for a newline
HasNewline(bytes) == \E k \in 1..Len(bytes) : bytes[k] = LF

\* ... or a read of n bytes, which ends the loop if a newline is among them
NewClientRead ==
    /\ pc = "NewClient" /\ wire # <<>>
    /\ \E n \in 1..Min(MaxChunk, Len(wire)) :
          /\ chunk' = Upto(wire, n)
          /\ wire' = From(wire, n)
          /\ pc' = IF HasNewline(Upto(wire, n)) THEN "idle" ELSE "NewClient"
    /\ err' = Nil
    /\ UNCHANGED <<conn, srv, r, isFinished, fed, count, sent, tag, op, held, out>>

\* a caller logs in first or not at all
FirstIfLogin(call) == call.name = "Login" => count = 0

\* a caller that was returned the length error gives the Session up
Usable == err # ErrLength

\* the counter of Do
NextCount(c) == c + 1

\* whether the read loop of Do is left after a Feed call
\* a loop that goes on reading after Feed reported an error
LoopEndsOnlyWhenFinished(fin, e) == fin

LoopEnds(fin, e) == e # Nil \/ fin

\* Do returns resp to the call in flight, which returns to its caller
ReturnFrom(call, resp) ==
    LET res == Result(call, resp)
    IN  /\ out' = res
        /\ pc' = IF res.panic THEN "panic" ELSE "idle"

\* the start of Do: count, format, NewResponse and a Write that fails
DoWriteFails(call) ==
    /\ pc = "idle" /\ Usable
    /\ count' = NextCount(count)
    /\ sent' = Append(sent, CommandLine(NextCount(count), CmdText(call)))
    /\ tag' = Tag(NextCount(count)) /\ op' = call
    /\ err' = ErrTransport /\ isFinished' = FALSE /\ fed' = <<>>
    /\ r' = [NewResponse EXCEPT !.err = ErrTransport]
    /\ ReturnFrom(call, [NewResponse EXCEPT !.err = ErrTransport])
    /\ chunk' = <<>>
    /\ conn' = "closed" /\ wire' = <<>>
    /\ UNCHANGED <<srv, held>>

\* the start of Do: count, format, NewResponse and a Write that succeeds;
\* the server answers the line it received
DoWrite(call) ==
    /\ pc = "idle" /\ conn = "open" /\ Usable
    /\ count' = NextCount(count)
    /\ sent' = Append(sent, CommandLine(NextCount(count), CmdText(call)))
    /\ tag' = Tag(NextCount(count)) /\ op' = call
    /\ err' = Nil /\ isFinished' = FALSE /\ fed' = <<>>
    /\ r' = NewResponse
    /\ pc' = "reading"
    /\ \E ans \in Answers(call) :
          /\ srv' = ans
          /\ wire' = wire \o Wire(ans.bs, Tag(NextCount(count)), ans.text)
    /\ chunk' = <<>> /\ out' = NoOut
    /\ UNCHANGED <<conn, held>>

\* one pass of the read loop of Do: a Read that fails
DoReadFails ==
    /\ pc = "reading"
    /\ err' = ErrTransport
    /\ r' = [r EXCEPT !.err = ErrTransport]
    /\ ReturnFrom(op, [r EXCEPT !.err = ErrTransport])
    /\ conn' = "closed" /\ wire' = <<>>
    /\ UNCHANGED <<srv, chunk, isFinished, fed, count, sent, tag, op, held>>

\* one pass of the read loop of Do: a Read of n bytes, fed to the parser
DoRead ==
    /\ pc = "reading" /\ wire # <<>>
    /\ \E n \in 1..Min(MaxChunk, Len(wire)) :
          LET res == Feed(r, Upto(wire, n))
              ret == IF res.err # Nil THEN [res.r EXCEPT !.err = res.err] ELSE res.r
          IN  /\ chunk' = Upto(wire, n)
              /\ wire' = From(wire, n)
              /\ fed' = fed \o Upto(wire, n)
              /\ isFinished' = res.fin /\ err' = res.err
              /\ r' = ret
              /\ IF LoopEnds(res.fin, res.err)
                 THEN ReturnFrom(op, ret)
                 ELSE UNCHANGED <<pc, out>>
    /\ UNCHANGED <<conn, srv, count, sent, tag, op, held>>

\* the caller keeps the completed Response Do just returned
Keep ==
    /\ pc = "idle" /\ r.feedStatus = "feedFinished"
    /\ held.feedStatus # "feedFinished"
    /\ held' = r
    /\ UNCHANGED <<wire, conn, srv, r, chunk, isFinished, err, fed, pc, count, sent, tag, op, out>>

\* the caller feeds one more byte to the completed Response it kept
CallerFeed ==
    /\ pc = "idle" /\ held.feedStatus = "feedFinished"
    /\ \E b \in {"*", "x"} :
          LET res == Feed(held, <<b>>)
          IN  /\ held' = res.r
              /\ isFinished' = res.fin /\ err' = res.err
    /\ UNCHANGED <<wire, conn, srv, r, chunk, fed, pc, count, sent, tag, op, out>>

Next ==
    \/ NewClientReadFails
    \/ NewClientRead
    \/ \E call \in DoCalls :
          count < MaxCmds /\ FirstIfLogin(call) /\ DoWriteFails(call)
    \/ \E call \in DoCalls :
          count < MaxCmds /\ FirstIfLogin(call) /\ DoWrite(call)
    \/ DoReadFails
    \/ DoRead
    \/ Keep
    \/ CallerFeed

Spec == Init /\ [][Next]_vars

NextOps ==
    \/ NewClientReadFails
    \/ NewClientRead
    \/ \E call \in OpCalls : count < MaxOps /\ DoWriteFails(call)
    \/ \E call \in OpCalls : count < MaxOps /\ DoWrite(call)
    \/ DoReadFails
    \/ DoRead

SpecOps == Init /\ [][NextOps]_vars

----------------------------------------------------------------------------
(* Claims about the parser, checked under SpecFeed *)

\* C1: however the bytes fed so far were cut into chunks, the Response shows
\* the caller the same tag, status text, error and replies as one Feed call
\* given all of those bytes at once.
C1_ChunkBoundaryIndependence ==
    Observable(r) = Observable(Feed(NewResponse, fed).r)

\* a whole response with a literal reply went in through several calls
C1_Witness ==
    /\ wire = <<>> /\ chunk # fed
    /\ r.feedStatus = "feedFinished"
    /\ Len(Replys(r)) > 0 /\ Replys(r)[1].content # <<>>

\* C2: once the status line is parsed, the error is nil exactly when the
\* first space-delimited token of the status text is OK; otherwise the error
\* text is the rest of the line after the tag.
C2_ErrorNilIffLeadingTokenOK ==
    r.feedStatus = "feedFinished" =>
        /\ (Error(r) = Nil) <=> (SplitN2(Status(r))[1] = <<"O", "K">>)
        /\ Error(r) # Nil => Error(r) = NewError(Status(r))

\* the n bytes that follow the newline of the length token in a record
LiteralOf(rec) ==
    LET p == IndexByte(rec.origin, LF)
    IN  SubSeq(rec.origin, p + 2, p + 1 + AtoiValue(rec.length))

ProbeBytes == {CR, LF, "(", ")", "*", "h"}

\* C3: in the literal-content state with declared length n every byte, CR
\* and LF included, is appended to content unchanged and ends neither the
\* literal nor the reply before n bytes are in, and the content of a record
\* in the list is exactly the n bytes that followed its length token.
C3_LiteralOpaqueAndExact ==
    /\ (r.feedStatus = "feedReplyContent" /\ ~AtoiFails(r.reply.length)
            /\ Len(r.reply.content) < AtoiValue(r.reply.length)) =>
         \A b \in ProbeBytes :
            LET s == FeedByte(r, b)
            IN  /\ ~s.returned
                /\ s.r.reply.content = Append(r.reply.content, b)
                /\ s.r.replys = r.replys
                /\ s.r.feedStatus =
                     IF Len(r.reply.content) + 1 = AtoiValue(r.reply.length)
                     THEN "feedReply" ELSE "feedReplyContent"
    /\ \A k \in 1..Len(Replys(r)) :
         Replys(r)[k].length # <<>> =>
            Replys(r)[k].content = LiteralOf(Replys(r)[k])

\* the text between the braces of the reply being built
LengthToken(origin) ==
    LET a == IndexByte(origin, "{")
        rest == From(origin, a + 1)
    IN  Upto(rest, IndexByte(rest, "}"))
HasLengthToken(origin) ==
    IndexByte(origin, "{") >= 0 /\ IndexByte(From(origin, IndexByte(origin, "{") + 1), "}") >= 0
IsNumber(t) == t # <<>> /\ \A k \in 1..Len(t) : IsDigit(t[k])

\* C4: a length token that is no decimal number makes Feed return the length
\* error once content would begin, and nothing has then been captured into
\* the content of the reply being built.
C4_BadLengthCapturesNothing ==
    /\ err = ErrLength => r.reply.content = <<>>
    /\ (r.feedStatus = "feedReplyContent" /\ r.reply.content # <<>>
            /\ HasLengthToken(r.reply.origin)
            /\ ~IsNumber(LengthToken(r.reply.origin))) => err = ErrLength

\* a byte of the chunk just fed came after the parser had reached Done
FedPastDone ==
    /\ fed' # fed
    /\ \/ r.feedStatus = "feedFinished"
       \/ \E j \in 1..(Len(chunk') - 1) :
             Feed(r, Upto(chunk', j)).r.feedStatus = "feedFinished"

\* C5: every Feed call that presents a byte after Done, in a later call or
\* behind the status line in the same chunk, returns the framing error.
C5_ByteAfterDoneIsError ==
    [][FedPastDone => err' = ErrNoMoreFeed]_vars

----------------------------------------------------------------------------
(* Claims about the Session, checked under Spec and SpecOps *)

\* C6: once a Response is complete nothing changes its tag, status text,
\* error or replies: not a further Feed call on it, which fails, and not a
\* later command of the Session with its reads into the read buffer.
C6_CompletedResponseImmutable ==
    [][held.feedStatus = "feedFinished" =>
          /\ Observable(held') = Observable(held)
          /\ (pc = "idle" /\ count' = count
                 /\ <<err', isFinished'>> # <<err, isFinished>>) =>
                (err' = ErrNoMoreFeed /\ isFinished')]_vars

\* a kept Response with replies while a later command reads into the buffer
C6_Witness ==
    /\ held.feedStatus = "feedFinished" /\ Replys(held) # <<>>
    /\ count > 1 /\ pc = "reading" /\ chunk # <<>>

\* the tag of a written line: its text before the first space
TagOf(line) == SplitN2(line)[1]

\* C7: the n-th call of Do, failed calls counted, writes one line
\* "<tag> <command-text>CRLF" whose tag is 'a' and n as three zero-padded
\* digits, so tags never repeat and never start with '*'.
C7_TagsStrictlyMonotonic ==
    /\ Len(sent) = count
    /\ \A n \in 1..Len(sent) :
          LET t == TagOf(sent[n])
          IN  /\ Len(t) = 4 /\ t[1] = "a" /\ t[1] # "*"
              /\ IsNumber(Tail(t)) /\ AtoiValue(Tail(t)) = n
              /\ \E call \in DoCalls : sent[n] = t \o <<SP>> \o CmdText(call) \o CRLF
              /\ Len(SelectSeq(sent[n], LAMBDA b : b = LF)) = 1
    /\ \A i, j \in 1..Len(sent) : i # j => TagOf(sent[i]) # TagOf(sent[j])

\* a second command was written after the first one failed
C7_Witness == count = 2 /\ Len(sent) = 2 /\ conn = "closed" /\ pc = "idle"

\* C8: the read loop of Do goes on exactly while no error occurred and the
\* parser has not completed; it returns a completed Response on completion,
\* and on a write, read or parser error it returns at once with the error in
\* the Response, which is not complete; outside the loop nothing is read or
\* written for the command.
C8_ReadPumpStops ==
    [][/\ (pc = "reading" /\ pc' = "reading") =>
             (err' = Nil /\ ~isFinished' /\ r'.feedStatus # "feedFinished")
       /\ (pc = "reading" /\ pc' # "reading") =>
             \/ isFinished' /\ err' = Nil /\ r'.feedStatus = "feedFinished"
             \/ err' # Nil /\ Error(r') = err' /\ r'.feedStatus # "feedFinished"
       /\ (pc = "idle" /\ count' # count) =>
             /\ Len(sent') = Len(sent) + 1
             /\ err' # Nil => (pc' # "reading" /\ Error(r') = err'
                                 /\ r'.feedStatus # "feedFinished")
       /\ (pc = "idle" /\ count' = count) => (wire' = wire /\ sent' = sent)]_vars

\* Do returned on a parser error and left the rest of the answer unread
C8_Witness ==
    /\ pc = "idle" /\ count > 0 /\ err = ErrLength /\ Error(r) = ErrLength
    /\ wire # <<>> /\ Replys(r) = <<>>

\* C9: the completed Response Do returns for the command written with tag t
\* has Id equal to t.
C9_IdEchoesTag ==
    (pc = "idle" /\ count > 0 /\ r.feedStatus = "feedFinished") => Id(r) = tag

\* C10: Fetch(id, item) on a successful response whose reply is
\* "* <id> FETCH (<item> {n}CRLF<n bytes>)" returns exactly those n bytes.
C10_FetchReturnsLiteral ==
    \A c \in Literals :
        (/\ pc = "idle" /\ op.name = "Fetch"
         /\ isFinished /\ err = Nil /\ Error(r) = Nil
         /\ srv.bs = <<FetchBody(op.a, op.b, Decimal(Len(c)), c)>>
         /\ fed = Wire(srv.bs, tag, srv.text))
        => out = [value |-> c, err |-> Nil, panic |-> FALSE]

\* the maximal runs of bytes other than the space, in their order in s
RECURSIVE Fields(_)
Fields(s) ==
    IF s = <<>> THEN <<>>
    ELSE IF Head(s) = SP THEN Fields(Tail(s))
    ELSE LET i == IndexByte(s, SP)
         IN  IF i < 0 THEN <<s>> ELSE <<Upto(s, i)>> \o Fields(From(s, i))

\* the replies of resp whose origin begins with the SEARCH keyword
SearchReplies(resp) ==
    SelectSeq(Replys(resp),
              LAMBDA rec : Len(rec.origin) >= 6 /\ ToUpper(Upto(rec.origin, 6)) = SEARCH)

\* C11: Search on a completed response returns the status error when the
\* status is not success; otherwise the identifiers of the first reply that
\* begins with SEARCH, in their order, an empty sequence and no error when it
\* lists none; and the invalid-response error only when no reply begins with
\* SEARCH.
C11_SearchResult ==
    (pc = "idle" /\ op.name = "Search" /\ r.feedStatus = "feedFinished") =>
        /\ ~out.panic
        /\ Error(r) # Nil => (out.err = Error(r) /\ out.value = <<>>)
        /\ (Error(r) = Nil /\ SearchReplies(r) # <<>>) =>
              /\ out.err = Nil
              /\ out.value = Fields(From(SearchReplies(r)[1].origin, 6))
        /\ (Error(r) = Nil /\ SearchReplies(r) = <<>>) => out.err = ErrInvalid
        /\ out.err = ErrInvalid => SearchReplies(r) = <<>>

\* Search returned the identifiers of a SEARCH reply that was not the first
\* reply of the response
C11_Witness ==
    /\ pc = "idle" /\ op.name = "Search" /\ r.feedStatus = "feedFinished"
    /\ Len(Replys(r)) = 2 /\ Len(SearchReplies(r)) = 1
    /\ out = [value |-> << <<"1">>, <<"2">>, <<"3">> >>, err |-> Nil, panic |-> FALSE]

\* the replies of resp of the form "<id> FETCH ..."
DataLines(resp, id) ==
    SelectSeq(Replys(resp),
              LAMBDA rec :
                 /\ Len(rec.origin) >= Len(id) + 6
                 /\ Upto(rec.origin, Len(id) + 1) = id \o <<SP>>
                 /\ ToUpper(SubSeq(rec.origin, Len(id) + 2, Len(id) + 6)) = FETCH)

\* C12: Fetch on a successfully completed response with no reply of the
\* form "<id> FETCH ...", a reply that is exactly the id or the id and fewer
\* bytes than expected included, returns the invalid-response error as a
\* value: it does not abort and returns no content.
C12_FetchMissingIsInvalid ==
    (/\ pc \in {"idle", "panic"} /\ op.name = "Fetch"
     /\ r.feedStatus = "feedFinished" /\ Error(r) = Nil
     /\ DataLines(r, op.a) = <<>>)
    => out = [value |-> <<>>, err |-> ErrInvalid, panic |-> FALSE]

\* the set of the bytes of s
Bytes(s) == {s[k] : k \in 1..Len(s)}

\* C13: while it consumes the greeting NewClient writes nothing; a read
\* without a newline is followed by another read, a read with a newline
\* ends it with a usable Session, and a read that fails (the transport
\* closed or broke before a newline came) ends it with the error and no
\* Session, on which nothing is done afterwards.
C13_GreetingConsumption ==
    [][/\ pc = "NewClient" =>
             /\ sent' = sent /\ count' = count
             /\ \/ /\ pc' = "NewClient" /\ err' = Nil
                   /\ chunk' # <<>> /\ LF \notin Bytes(chunk')
                \/ /\ pc' = "idle" /\ err' = Nil /\ conn' = "open"
                   /\ LF \in Bytes(chunk')
                \/ /\ pc' = "failed" /\ err' # Nil
       /\ pc = "failed" => FALSE]_vars

\* the greeting came in several reads, the last of them with the newline
C13_Witness ==
    /\ pc = "idle" /\ count = 0 /\ sent = <<>> /\ conn = "open"
    /\ LF \in Bytes(chunk) /\ Len(chunk) < Len(Greeting)

----------------------------------------------------------------------------
(* Further claims about the parser, checked under SpecFeed *)

\* C14: in the state reached by a CR inside an untagged reply, a byte other
\* than LF takes the parser back to the reply state with the CR and that
\* byte appended to origin, so the origin of a record is the line as it
\* came, no CR lost.
C14_FalseReplyTerminatorKeepsCR ==
    /\ r.feedStatus = "feedReplyMeet0d" =>
          \A b \in ProbeBytes \ {LF} :
             LET s == FeedByte(r, b)
             IN  /\ ~s.returned /\ s.r.feedStatus = "feedReply"
                 /\ s.r.reply.origin = r.reply.origin \o <<CR, b>>
    /\ (r.feedStatus = "feedFinished" /\ Len(srv.bs) = 1
            /\ srv.bs[1] \in PlainBodies) =>
          (Len(Replys(r)) = 1 /\ Replys(r)[1].origin = srv.bs[1])

\* C15: for every declared length n >= 0, n = 0 included, exactly n bytes
\* after the newline of the length token are taken as content and the
\* parser is then back in the reply state, so that a response with one
\* literal reply, fed whole, is complete and its record holds the literal.
C15_LiteralFramedByCount ==
    /\ (r.feedStatus = "feedReplyContent" /\ ~AtoiFails(r.reply.length)) =>
          Len(r.reply.content) < AtoiValue(r.reply.length)
    /\ \A c \in Literals :
          (/\ wire = <<>>
           /\ srv.bs = <<FetchBody(<<"4">>, TEXT, Decimal(Len(c)), c)>>)
          => /\ r.feedStatus = "feedFinished"
             /\ Len(Replys(r)) = 1 /\ Replys(r)[1].content = c

\* C16: a reply with no length-prefixed literal ends at its first CRLF, a
\* reply with a keyword, a space and more text in parentheses (a flags
\* list) included: the CRLF appends the record and the bytes after it are
\* parsed as the status line, so the response fed whole is complete with
\* that one record.
C16_ReplyEndsAtFirstCRLF ==
    \A b \in Bodies :
        (/\ wire = <<>> /\ srv.bs = <<b>> /\ srv.text = DoneText
         /\ IndexByte(b, "{") < 0)
        => /\ r.feedStatus = "feedFinished"
           /\ Len(Replys(r)) = 1
           /\ Id(r) = FeedTag /\ Status(r) = Tail(DoneText)

\* C17: every record of the replies list has content exactly when a length
\* was parsed for it, and then as many bytes of content as that length; a
\* record is appended only by the LF that follows a CR seen in the reply
\* state, outside literal content, and it is the reply built so far.
C17_AppendedRecordInvariant ==
    /\ \A k \in 1..Len(Replys(r)) :
          LET rec == Replys(r)[k]
          IN  /\ (rec.content # <<>>) <=> (rec.length # <<>>)
              /\ rec.length # <<>> => Len(rec.content) = AtoiValue(rec.length)
    /\ \A b \in ProbeBytes :
          LET s == FeedByte(r, b)
          IN  s.r.replys # r.replys =>
                 /\ r.feedStatus = "feedReplyMeet0d" /\ b = LF
                 /\ s.r.replys = Append(r.replys, r.reply)
    /\ r.feedStatus = "feedReplyMeet0d" =>
          /\ fed[Len(fed)] = CR
          /\ Feed(NewResponse, Upto(fed, Len(fed) - 1)).r.feedStatus = "feedReply"

\* a record with a literal next to a record without one
C17_Witness ==
    /\ r.feedStatus = "feedFinished" /\ Len(Replys(r)) = 2
    /\ \E j, k \in 1..2 :
          /\ Replys(r)[j].length = <<>> /\ Replys(r)[j].content = <<>>
          /\ Len(Replys(r)[k].content) = 2 /\ LF \in Bytes(Replys(r)[k].content)

\* s without its carriage returns
WithoutCR(s) == SelectSeq(s, LAMBDA x : x # CR)

\* how many newlines s holds
Newlines(s) == Len(SelectSeq(s, LAMBDA x : x = LF))

\* C18: across the Feed calls on a Response the replies list only grows at
\* its end: the records it held stay as they were and where they were, at
\* most one record is added per line ended in the call, and the records of
\* a response are those of its untagged lines in the order of the lines.
C18_ReplysAppendOnly ==
    [][/\ Len(Replys(r')) >= Len(Replys(r))
       /\ Upto(Replys(r'), Len(Replys(r))) = Replys(r)
       /\ Len(Replys(r')) - Len(Replys(r)) <= Newlines(chunk')
       /\ (r'.feedStatus = "feedFinished"
              /\ \A k \in 1..Len(srv.bs) : srv.bs[k] \in PlainBodies) =>
             /\ Len(Replys(r')) = Len(srv.bs)
             /\ \A k \in 1..Len(srv.bs) :
                   WithoutCR(Replys(r')[k].origin) = WithoutCR(srv.bs[k])]_vars

\* two different replies, appended in different Feed calls
C18_Witness ==
    /\ r.feedStatus = "feedFinished" /\ Len(Replys(r)) = 2
    /\ Replys(r)[1] # Replys(r)[2]
    /\ Newlines(chunk) = 1 /\ chunk # fed

\* C19: the flag a Feed call returns is true exactly when the parser reached
\* Done during that call; a call that ends in another state and a call that
\* returns an error return false.
C19_FlagMeansDoneReachedInCall ==
    [][fed' # fed =>
          /\ isFinished' <=>
                (r.feedStatus # "feedFinished" /\ r'.feedStatus = "feedFinished")
          /\ err' # Nil => ~isFinished']_vars

\* line is tag, or tag, a space and text, the tag without a space
SplitsInto(line, tagText, text) ==
    IF SP \in Bytes(line)
    THEN line = tagText \o <<SP>> \o text /\ SP \notin Bytes(tagText)
    ELSE tagText = line /\ text = <<>>

\* C20: the status line ends only at the LF that follows a CR: after a CR
\* any other byte goes into the line behind the CR and the line goes on, and
\* no byte ends the line in another state. At the LF the line is split at
\* its first space into the tag and the status text, a line without a space
\* being all tag.
C20_StatusLineFraming ==
    /\ r.feedStatus = "feedStatusLineMeet0d" =>
          \A b \in ProbeBytes :
             LET s == FeedByte(r, b)
             IN  IF b = LF
                 THEN /\ s.r.feedStatus = "feedFinished"
                      /\ SplitsInto(r.buf, Id(s.r), Status(s.r))
                 ELSE /\ ~s.returned /\ s.r.feedStatus = "feedStatusLine"
                      /\ s.r.buf = r.buf \o <<CR, b>>
    /\ r.feedStatus \notin {"feedStatusLineMeet0d", "feedFinished"} =>
          \A b \in ProbeBytes : FeedByte(r, b).r.feedStatus # "feedFinished"
    /\ (r.feedStatus = "feedFinished"
           /\ \A k \in 1..Len(srv.bs) : srv.bs[k] \in PlainBodies) =>
          SplitsInto(FeedTag \o srv.text, Id(r), Status(r))

\* a status line with a CR in its text, completed over several Feed calls
C20_Witness ==
    /\ r.feedStatus = "feedFinished" /\ chunk # fed
    /\ Id(r) = FeedTag /\ Status(r) = <<"B", "A", "D", SP, "a", CR, "b">>

====
